---- MODULE Spec2Model ----
(***************************************************************************)
(* A model of kvdi's authorization core: the Rule predicates of package    *)
(* v1 (IsEmpty, DeepEqual, HasVerb, HasResourceType, MatchesResourceName,  *)
(* HasNamespace), the RoleGrant bitmask of package grants (Has, Names) and *)
(* the desktop-session handlers of package api that are gated by grants.   *)
(*                                                                         *)
(* A Go string is a sequence of one-character strings; Code gives the byte *)
(* of a character, so that sort.Strings' byte-wise order can be computed.  *)
(***************************************************************************)
EXTENDS Integers, Sequences, FiniteSets, TLC

VARIABLES
    a,          \* a Rule held by the caller (the receiver of the calls)
    b,          \* the Rule handed to the last DeepEqual as its argument
    ret,        \* the last call on the rules: [op, arg, out]
    authz,      \* the last authorization decision: [coll, verb, res, name, ns, out]
    pc,         \* per goroutine: where it stands inside DeepEqual
    loc,        \* per goroutine: DeepEqual's local copies and string slices
    held,       \* the two Rules as they were handed to the goroutines
    mask,       \* the aggregated RoleGrant of a principal
    pending,    \* the role masks not yet OR-ed into mask
    applied,    \* the role masks already OR-ed into mask
    gret,       \* the last call on mask: [op, arg, out, names]
    user,       \* the role masks of the user who is logged in
    desktops,   \* the Desktop objects the backing client holds, by name
    http        \* the last handled request: [handler, sess, nn, calls, resp, body]

ruleVars  == <<a, b, ret, authz>>
concVars  == <<pc, loc, held>>
grantVars == <<mask, pending, applied, gret>>
httpVars  == <<user, desktops, http>>
vars      == <<a, b, ret, authz, pc, loc, held, mask, pending, applied, gret,
               user, desktops, http>>

----------------------------------------------------------------------------
(* Strings *)

Letters == <<"a","b","c","d","e","f","g","h","i","j","k","l","m",
             "n","o","p","q","r","s","t","u","v","w","x","y","z">>

\* The byte of a character (ASCII).
Code(c) ==
    CASE c = "$" -> 36
      [] c = "(" -> 40
      [] c = ")" -> 41
      [] c = "*" -> 42
      [] c = "-" -> 45
      [] c = "." -> 46
      [] c = "^" -> 94
      [] OTHER   -> 96 + (CHOOSE i \in 1..Len(Letters) : Letters[i] = c)

\* s < t in Go's string order: byte-wise lexicographic.
RECURSIVE StrLessFrom(_, _, _)
StrLessFrom(s, t, i) ==
    IF i > Len(t) THEN FALSE
    ELSE IF i > Len(s) THEN TRUE
    ELSE IF Code(s[i]) < Code(t[i]) THEN TRUE
    ELSE IF Code(s[i]) > Code(t[i]) THEN FALSE
    ELSE StrLessFrom(s, t, i + 1)

StrLess(s, t) == StrLessFrom(s, t, 1)

\* x put into the sorted sequence ss, before the first element greater than x.
RECURSIVE InsertSorted(_, _)
InsertSorted(x, ss) ==
    IF ss = <<>> THEN <<x>>
    ELSE IF StrLess(x, Head(ss)) THEN <<x>> \o ss
    ELSE <<Head(ss)>> \o InsertSorted(x, Tail(ss))

RECURSIVE SortAscending(_)
SortAscending(ss) ==
    IF ss = <<>> THEN <<>> ELSE InsertSorted(Head(ss), SortAscending(Tail(ss)))

\* A plausible slip: the slice is left as it is.
SortStringsNoop(ss) == ss

\* sort.Strings: the slice in increasing order.
SortStrings(ss) == SortAscending(ss)

----------------------------------------------------------------------------
(* The vocabulary *)

VerbAll      == <<"*">>
ResourceAll  == <<"*">>
NamespaceAll == <<"*">>

sRead    == <<"r","e","a","d">>
sExec    == <<"e","x","e","c">>            \* not a recognized verb
sUsers   == <<"u","s","e","r","s">>
sPods    == <<"p","o","d","s">>            \* not a recognized resource
sDev     == <<"d","e","v">>
sProd    == <<"p","r","o","d">>

\* Patterns: ^a, (a (does not compile), . and .$ (the same matches, as strings distinct)
pPrefixA  == <<"^","a">>
pUnclosed == <<"(","a">>
pAny      == <<".">>
pAnyEnd   == <<".","$">>

\* Resource names
nEmpty == <<>>
nA     == <<"a">>
nAB    == <<"a","b">>
nBA    == <<"b","a">>

----------------------------------------------------------------------------
(* Regular expressions: the part of Go's regexp syntax made of literals,   *)
(* ".", "^", "$" and groups "(" ")".                                        *)

\* regexp.Compile's err == nil: every group is closed and none is closed unopened.
RECURSIVE ParensFrom(_, _, _)
ParensFrom(p, i, depth) ==
    IF i > Len(p) THEN depth = 0
    ELSE IF p[i] = "(" THEN ParensFrom(p, i + 1, depth + 1)
    ELSE IF p[i] = ")" THEN depth > 0 /\ ParensFrom(p, i + 1, depth - 1)
    ELSE ParensFrom(p, i + 1, depth)

RegexCompiles(p) == ParensFrom(p, 1, 0)

\* The pattern from token i on matches name from offset pos on.
RECURSIVE MatchAt(_, _, _, _)
MatchAt(p, i, name, pos) ==
    IF i > Len(p) THEN TRUE
    ELSE CASE p[i] = "^" -> pos = 0 /\ MatchAt(p, i + 1, name, pos)
           [] p[i] = "$" -> pos = Len(name) /\ MatchAt(p, i + 1, name, pos)
           [] p[i] \in {"(", ")"} -> MatchAt(p, i + 1, name, pos)
           [] p[i] = "." -> pos < Len(name) /\ MatchAt(p, i + 1, name, pos + 1)
           [] OTHER -> /\ pos < Len(name)
                       /\ name[pos + 1] = p[i]
                       /\ MatchAt(p, i + 1, name, pos + 1)

\* re.MatchString: the pattern matches somewhere in name (it is not anchored).
RegexMatchString(p, name) == \E pos \in 0..Len(name) : MatchAt(p, 1, name, pos)

----------------------------------------------------------------------------
(* Rule *)

Rule(vs, rs, ps, ns) ==
    [Verbs |-> vs, Resources |-> rs, ResourcePatterns |-> ps, Namespaces |-> ns]

IsEmpty(r) ==
    /\ Len(r.Verbs) = 0
    /\ Len(r.Resources) = 0
    /\ Len(r.ResourcePatterns) = 0
    /\ Len(r.Namespaces) = 0

\* A plausible slip: the lengths are not compared, only the common prefix is.
strSliceEqualNoLen(ss, xx) ==
    LET lS == Len(ss)
        lX == Len(xx)
    IN  \A i \in 1..(IF lS < lX THEN lS ELSE lX) : xx[i] = ss[i]

\* strSliceEqual, branch by branch.
strSliceEqual(ss, xx) ==
    LET lS == Len(ss)
        lX == Len(xx)
    IN  IF lS = 0 /\ lX = 0 THEN TRUE
        ELSE IF lS # lX THEN FALSE
        ELSE IF lS > 0 THEN \A i \in 1..lS : xx[i] = ss[i]
        ELSE \A i \in 1..lX : ss[i] = xx[i]

\* Verb and Resource are string types: the conversion keeps each element's bytes.
verbsToStrings(vs) == [i \in 1..Len(vs) |-> vs[i]]
resourcesToStrings(rs) == [i \in 1..Len(rs) |-> rs[i]]

\* DeepCopy: a Rule whose four slices are new arrays holding the same elements.
DeepCopy(r) ==
    Rule([i \in 1..Len(r.Verbs) |-> r.Verbs[i]],
         [i \in 1..Len(r.Resources) |-> r.Resources[i]],
         [i \in 1..Len(r.ResourcePatterns) |-> r.ResourcePatterns[i]],
         [i \in 1..Len(r.Namespaces) |-> r.Namespaces[i]])

DeepEqual(r, rule) ==
    LET this == DeepCopy(r)
        that == DeepCopy(rule)
        thisResourceStrings == SortStrings(resourcesToStrings(this.Resources))
        thisVerbStrings     == SortStrings(verbsToStrings(this.Verbs))
        thatResourceStrings == SortStrings(resourcesToStrings(that.Resources))
        thatVerbStrings     == SortStrings(verbsToStrings(that.Verbs))
    IN  /\ strSliceEqual(thisResourceStrings, thatResourceStrings)
        /\ strSliceEqual(thisVerbStrings, thatVerbStrings)
        /\ strSliceEqual(SortStrings(this.ResourcePatterns), SortStrings(that.ResourcePatterns))
        /\ strSliceEqual(SortStrings(this.Namespaces), SortStrings(that.Namespaces))

\* The loop shared by HasVerb, HasResourceType and HasNamespace, from item i on.
RECURSIVE HasItemFrom(_, _, _, _)
HasItemFrom(items, i, all, want) ==
    IF i > Len(items) THEN FALSE
    ELSE IF items[i] = all THEN TRUE
    ELSE IF items[i] = want THEN TRUE
    ELSE HasItemFrom(items, i + 1, all, want)

\* A plausible slip: the wildcard counts only as the first item.
HasVerbFirstOnly(r, verb) ==
    \/ (Len(r.Verbs) > 0 /\ r.Verbs[1] = VerbAll)
    \/ \E i \in 1..Len(r.Verbs) : r.Verbs[i] = verb

HasVerb(r, verb) == HasItemFrom(r.Verbs, 1, VerbAll, verb)

\* A plausible slip: the wildcard is not looked for, only the resource itself.
HasResourceTypeExactOnly(r, resource) ==
    \E i \in 1..Len(r.Resources) : r.Resources[i] = resource

HasResourceType(r, resource) == HasItemFrom(r.Resources, 1, ResourceAll, resource)

HasNamespace(r, ns) == HasItemFrom(r.Namespaces, 1, NamespaceAll, ns)

\* MatchesResourceName's loop from pattern i on: a pattern that does not
\* compile is passed over.
RECURSIVE MatchesFrom(_, _, _)
MatchesFrom(ps, i, name) ==
    IF i > Len(ps) THEN FALSE
    ELSE IF ~RegexCompiles(ps[i]) THEN MatchesFrom(ps, i + 1, name)
    ELSE IF RegexMatchString(ps[i], name) THEN TRUE
    ELSE MatchesFrom(ps, i + 1, name)

\* A plausible slip: a pattern that does not compile ends the evaluation.
RECURSIVE MatchesAbortFrom(_, _, _)
MatchesAbortFrom(ps, i, name) ==
    IF i > Len(ps) THEN FALSE
    ELSE IF ~RegexCompiles(ps[i]) THEN FALSE
    ELSE IF RegexMatchString(ps[i], name) THEN TRUE
    ELSE MatchesAbortFrom(ps, i + 1, name)

MatchesResourceNameAbort(r, name) == MatchesAbortFrom(r.ResourcePatterns, 1, name)

MatchesResourceName(r, name) == MatchesFrom(r.ResourcePatterns, 1, name)

----------------------------------------------------------------------------
(* The callers' inputs *)

MaxElems == 2       \* a Rule of the rule specification holds at most this many items

SeqsUpTo(S, n) == UNION {[1..k -> S] : k \in 0..n}

VerbItems      == {sRead, VerbAll}
ResourceItems  == {sUsers, ResourceAll}
PatternItems   == {pPrefixA, pUnclosed, pAny, pAnyEnd}
NamespaceItems == {sDev, NamespaceAll}

VerbArgs      == {sRead, VerbAll, sExec}
ResourceArgs  == {sUsers, ResourceAll, sPods}
NamespaceArgs == {sDev, NamespaceAll, sProd}
NameArgs      == {nEmpty, nA, nAB, nBA}

RuleSet ==
    {r \in [Verbs : SeqsUpTo(VerbItems, MaxElems),
            Resources : SeqsUpTo(ResourceItems, MaxElems),
            ResourcePatterns : SeqsUpTo(PatternItems, MaxElems),
            Namespaces : SeqsUpTo(NamespaceItems, MaxElems)] :
        Len(r.Verbs) + Len(r.Resources) + Len(r.ResourcePatterns) + Len(r.Namespaces)
            <= MaxElems}

EmptyRule == Rule(<<>>, <<>>, <<>>, <<>>)

NoCall  == [op |-> "none", arg |-> <<>>, out |-> FALSE]
NoAuthz == [op |-> "none", coll |-> <<>>, verb |-> <<>>, res |-> <<>>,
            name |-> [given |-> FALSE, val |-> <<>>],
            ns |-> [given |-> FALSE, val |-> <<>>], out |-> FALSE]
NoGret  == [op |-> "none", arg |-> 0, out |-> FALSE, names |-> <<>>]
NoBody  == [running |-> FALSE, podPhase |-> "", resolvable |-> FALSE]
NoHttp  == [handler |-> "none", sess |-> FALSE, nn |-> "", calls |-> <<>>,
            resp |-> "none", body |-> NoBody]

\* What a specification leaves alone.
ConcIdle  == pc = <<>> /\ loc = <<>> /\ held = <<>>
GrantIdle == mask = 0 /\ pending = <<>> /\ applied = <<>> /\ gret = NoGret
HttpIdle  == user = <<>> /\ desktops = <<>> /\ http = NoHttp

----------------------------------------------------------------------------
(* The rule specification: one call on the Rules a and b *)

RuleInit ==
    /\ a \in RuleSet
    /\ b = EmptyRule
    /\ ret = NoCall
    /\ authz = NoAuthz
    /\ ConcIdle /\ GrantIdle /\ HttpIdle

Returned(op, arg, out) ==
    /\ ret.op = "none"
    /\ ret' = [op |-> op, arg |-> arg, out |-> out]
    /\ UNCHANGED <<a, authz, concVars, grantVars, httpVars>>

CallIsEmpty == Returned("IsEmpty", <<>>, IsEmpty(a)) /\ UNCHANGED b

CallHasVerb ==
    \E v \in VerbArgs : Returned("HasVerb", v, HasVerb(a, v)) /\ UNCHANGED b

CallHasResourceType ==
    \E r \in ResourceArgs :
        Returned("HasResourceType", r, HasResourceType(a, r)) /\ UNCHANGED b

CallHasNamespace ==
    \E n \in NamespaceArgs :
        Returned("HasNamespace", n, HasNamespace(a, n)) /\ UNCHANGED b

CallMatchesResourceName ==
    \E n \in NameArgs :
        Returned("MatchesResourceName", n, MatchesResourceName(a, n)) /\ UNCHANGED b

CallDeepEqual ==
    \E rule \in RuleSet :
        Returned("DeepEqual", <<>>, DeepEqual(a, rule)) /\ b' = rule

RuleNext ==
    \/ CallIsEmpty
    \/ CallHasVerb
    \/ CallHasResourceType
    \/ CallHasNamespace
    \/ CallMatchesResourceName
    \/ CallDeepEqual

SpecRule == RuleInit /\ [][RuleNext]_vars

----------------------------------------------------------------------------
(* Claims about the Rule predicates *)

Items(s) == {s[i] : i \in 1..Len(s)}
Count(s, x) == Cardinality({i \in 1..Len(s) : s[i] = x})
SameBag(s, t) == \A x \in Items(s) \cup Items(t) : Count(s, x) = Count(t, x)
Compiling(ps) == SelectSeq(ps, RegexCompiles)

\* C2: MatchesResourceName(name) is true iff some pattern of the rule compiles
\* and matches name; the patterns that do not compile could as well be absent,
\* and a rule without patterns matches no name, the empty name included.
C2_MatchesAnyCompiling ==
    ret.op = "MatchesResourceName" =>
        /\ ret.out = (\E p \in Items(a.ResourcePatterns) :
                          RegexCompiles(p) /\ RegexMatchString(p, ret.arg))
        /\ ret.out = MatchesResourceName(
                         [a EXCEPT !.ResourcePatterns = Compiling(a.ResourcePatterns)], ret.arg)
        /\ (a.ResourcePatterns = <<>> => ret.out = FALSE)

\* C2's case: a pattern that does not compile, then one that matches the name.
C2_Witness ==
    /\ ret.op = "MatchesResourceName"
    /\ a.ResourcePatterns = <<pUnclosed, pPrefixA>>
    /\ ret.arg = nAB
    /\ ret.out = TRUE

\* C3: HasVerb(v) is true iff v or the wildcard is among the verbs, wherever
\* it stands, and false on no verbs; HasResourceType and HasNamespace are the
\* same over resources and namespaces. Verbs ["*"] has every verb.
C3_WildcardOrExact ==
    /\ ret.op = "HasVerb" =>
          /\ ret.out = (ret.arg \in Items(a.Verbs) \/ <<"*">> \in Items(a.Verbs))
          /\ (a.Verbs = <<>> => ret.out = FALSE)
          /\ (a.Verbs = << <<"*">> >> => ret.out = TRUE)
    /\ ret.op = "HasResourceType" =>
          /\ ret.out = (ret.arg \in Items(a.Resources) \/ <<"*">> \in Items(a.Resources))
          /\ (a.Resources = <<>> => ret.out = FALSE)
    /\ ret.op = "HasNamespace" =>
          /\ ret.out = (ret.arg \in Items(a.Namespaces) \/ <<"*">> \in Items(a.Namespaces))
          /\ (a.Namespaces = <<>> => ret.out = FALSE)

\* C3's case: the wildcard in second place, asked for a verb that is not recognized.
C3_Witness ==
    /\ ret.op = "HasVerb"
    /\ a.Verbs = <<sRead, VerbAll>>
    /\ ret.arg = sExec
    /\ ret.out = TRUE

\* C4: DeepEqual is true iff each of the four fields holds the same strings
\* with the same multiplicities in both rules, in whatever order.
C4_DeepEqualIsBagEquality ==
    ret.op = "DeepEqual" =>
        ret.out = (/\ SameBag(a.Verbs, b.Verbs)
                   /\ SameBag(a.Resources, b.Resources)
                   /\ SameBag(a.ResourcePatterns, b.ResourcePatterns)
                   /\ SameBag(a.Namespaces, b.Namespaces))

\* C4's case: two rules that differ only in the order of a field are equal.
C4_Witness ==
    /\ ret.op = "DeepEqual"
    /\ a.Verbs = <<sRead, VerbAll>>
    /\ b.Verbs = <<VerbAll, sRead>>
    /\ ret.out = TRUE

\* C10: two rules that DeepEqual finds equal answer IsEmpty, HasVerb,
\* HasResourceType, HasNamespace and MatchesResourceName alike on every input.
C10_DeepEqualSound ==
    (ret.op = "DeepEqual" /\ ret.out) =>
        /\ IsEmpty(a) = IsEmpty(b)
        /\ \A v \in VerbArgs : HasVerb(a, v) = HasVerb(b, v)
        /\ \A r \in ResourceArgs : HasResourceType(a, r) = HasResourceType(b, r)
        /\ \A n \in NamespaceArgs : HasNamespace(a, n) = HasNamespace(b, n)
        /\ \A n \in NameArgs : MatchesResourceName(a, n) = MatchesResourceName(b, n)

\* C10's case: equal rules whose patterns stand in a different order.
C10_Witness ==
    /\ ret.op = "DeepEqual"
    /\ ret.out = TRUE
    /\ a.ResourcePatterns = <<pUnclosed, pPrefixA>>
    /\ b.ResourcePatterns = <<pPrefixA, pUnclosed>>

----------------------------------------------------------------------------
(* Rule-set authorization: the aggregation over the rules of a principal's *)
(* roles, as the design document lays it down.                             *)

\* An optional argument of an action: supplied or not.
None == [given |-> FALSE, val |-> <<>>]
Some(v) == [given |-> TRUE, val |-> v]

\* One rule authorizes the action: verb and resource type must match; a
\* supplied name must match unless the rule has no patterns; a supplied
\* namespace must be one of the rule's.
RuleAuthorizes(r, verb, res, name, ns) ==
    IF ~HasVerb(r, verb) THEN FALSE
    ELSE IF ~HasResourceType(r, res) THEN FALSE
    ELSE IF name.given /\ Len(r.ResourcePatterns) # 0 /\ ~MatchesResourceName(r, name.val)
        THEN FALSE
    ELSE IF ns.given /\ ~HasNamespace(r, ns.val) THEN FALSE
    ELSE TRUE

\* The rules are tried in turn, from rule i on; the first that authorizes decides.
RECURSIVE AuthorizedFrom(_, _, _, _, _, _)
AuthorizedFrom(coll, i, verb, res, name, ns) ==
    IF i > Len(coll) THEN FALSE
    ELSE IF RuleAuthorizes(coll[i], verb, res, name, ns) THEN TRUE
    ELSE AuthorizedFrom(coll, i + 1, verb, res, name, ns)

Authorized(coll, verb, res, name, ns) == AuthorizedFrom(coll, 1, verb, res, name, ns)

MaxFieldLen == 1    \* a field of a Rule of the authorization specification holds at most this many items

AuthPatternItems == {pPrefixA, pUnclosed}

AuthRuleSet ==
    [Verbs : SeqsUpTo(VerbItems, MaxFieldLen),
     Resources : SeqsUpTo(ResourceItems, MaxFieldLen),
     ResourcePatterns : SeqsUpTo(AuthPatternItems, MaxFieldLen),
     Namespaces : SeqsUpTo(NamespaceItems, MaxFieldLen)]

\* The rules of a second role: none that says anything, or one that allows
\* reading users whose name starts with "a" in namespace dev.
OtherRoleRules == {EmptyRule, Rule(<<sRead>>, <<sUsers>>, <<pPrefixA>>, <<sDev>>)}

AuthVerbArgs     == {sRead, sExec}
AuthResourceArgs == {sUsers, sPods}
AuthNameArgs     == {None, Some(nAB), Some(nBA)}
AuthNsArgs       == {None, Some(sDev), Some(sProd)}

\* The collections a caller may hold: no rule, the rules of one role, of two.
Collections(r) ==
    {<<>>, <<r>>} \cup {<<r, o>> : o \in OtherRoleRules} \cup {<<o, r>> : o \in OtherRoleRules}

AuthInit ==
    /\ a \in AuthRuleSet
    /\ b = EmptyRule
    /\ ret = NoCall
    /\ authz = NoAuthz
    /\ ConcIdle /\ GrantIdle /\ HttpIdle

Authorize ==
    /\ authz.op = "none"
    /\ \E coll \in Collections(a), verb \in AuthVerbArgs, res \in AuthResourceArgs,
          name \in AuthNameArgs, ns \in AuthNsArgs :
          authz' = [op |-> "Authorize", coll |-> coll, verb |-> verb, res |-> res,
                    name |-> name, ns |-> ns,
                    out |-> Authorized(coll, verb, res, name, ns)]
    /\ UNCHANGED <<a, b, ret, concVars, grantVars, httpVars>>

AuthNext == Authorize

SpecAuth == AuthInit /\ [][AuthNext]_vars

\* Membership in a field, with its wildcard.
InOrAll(x, items) == x \in Items(items) \/ <<"*">> \in Items(items)

----------------------------------------------------------------------------
(* RoleGrant *)

\* Go's x & y and x | y on non-negative ints.
RECURSIVE BitAnd(_, _)
BitAnd(x, y) ==
    IF x = 0 \/ y = 0 THEN 0
    ELSE (x % 2) * (y % 2) + 2 * BitAnd(x \div 2, y \div 2)

RECURSIVE BitOr(_, _)
BitOr(x, y) ==
    IF x = 0 THEN y
    ELSE IF y = 0 THEN x
    ELSE (IF x % 2 = 1 \/ y % 2 = 1 THEN 1 ELSE 0) + 2 * BitOr(x \div 2, y \div 2)

\* 1 << iota
Iota(i) == 2 ^ i

ReadUsers           == Iota(0)
WriteUsers          == Iota(1)
ReadRoles           == Iota(2)
WriteRoles          == Iota(3)
ReadTemplates       == Iota(4)
WriteTemplates      == Iota(5)
LaunchTemplates     == Iota(6)
ReadDesktopSessions == Iota(7)

All ==
    BitOr(ReadUsers, BitOr(WriteUsers,
    BitOr(ReadRoles, BitOr(WriteRoles,
    BitOr(ReadTemplates, BitOr(WriteTemplates,
    BitOr(LaunchTemplates, ReadDesktopSessions)))))))

grantNames ==
    <<"ReadUsers", "WriteUsers", "ReadRoles", "WriteRoles",
      "ReadTemplates", "WriteTemplates", "LaunchTemplates", "ReadDesktopSessions">>

\* A plausible slip: the mask is compared with the grant, not intersected.
HasExactly(r, grant) == r = grant

\* A plausible slip: every bit of grant is asked for.
HasEveryBit(r, grant) == BitAnd(r, grant) = grant

Has(r, grant) == BitAnd(r, grant) # 0

\* Names' loop from i on (i counts from 0, as in the source).
RECURSIVE NamesFrom(_, _, _)
NamesFrom(r, i, result) ==
    IF ~(i < Len(grantNames)) THEN result
    ELSE IF BitAnd(r, Iota(i)) # 0
        THEN NamesFrom(r, i + 1, Append(result, grantNames[i + 1]))
    ELSE NamesFrom(r, i + 1, result)

\* A plausible slip: the bit tested is one further than the name's.
RECURSIVE NamesShiftedFrom(_, _, _)
NamesShiftedFrom(r, i, result) ==
    IF ~(i < Len(grantNames)) THEN result
    ELSE IF BitAnd(r, Iota(i + 1)) # 0
        THEN NamesShiftedFrom(r, i + 1, Append(result, grantNames[i + 1]))
    ELSE NamesShiftedFrom(r, i + 1, result)

NamesShifted(r) == NamesShiftedFrom(r, 0, <<>>)

Names(r) == NamesFrom(r, 0, <<>>)

----------------------------------------------------------------------------
(* The grant specification: the masks of a principal's roles are OR-ed     *)
(* into one mask, in any order, and the mask is asked Has and Names.       *)

MaxRoles == 2       \* a principal is bound to at most this many roles

RoleMasks ==
    {0, ReadUsers, WriteUsers, ReadDesktopSessions, BitOr(WriteUsers, ReadUsers), All}

GrantArgs ==
    {0, ReadUsers, WriteUsers, ReadTemplates, ReadDesktopSessions,
     BitOr(ReadUsers, ReadTemplates), All}

GrantInit ==
    /\ mask = 0
    /\ pending \in SeqsUpTo(RoleMasks, MaxRoles)
    /\ applied = <<>>
    /\ gret = NoGret
    /\ a = EmptyRule /\ b = EmptyRule /\ ret = NoCall /\ authz = NoAuthz
    /\ ConcIdle /\ HttpIdle

Remove(s, i) == SubSeq(s, 1, i - 1) \o SubSeq(s, i + 1, Len(s))

\* The union of a mask with the next role's.
Union(m, role) == BitOr(m, role)

\* One more role's mask is OR-ed into the principal's.
Aggregate ==
    /\ gret.op = "none"
    /\ \E i \in 1..Len(pending) :
          /\ mask' = Union(mask, pending[i])
          /\ applied' = Append(applied, pending[i])
          /\ pending' = Remove(pending, i)
    /\ UNCHANGED <<gret, ruleVars, concVars, httpVars>>

CallHas ==
    /\ gret.op = "none"
    /\ \E g \in GrantArgs :
          gret' = [op |-> "Has", arg |-> g, out |-> Has(mask, g), names |-> <<>>]
    /\ UNCHANGED <<mask, pending, applied, ruleVars, concVars, httpVars>>

CallNames ==
    /\ gret.op = "none"
    /\ gret' = [op |-> "Names", arg |-> 0, out |-> FALSE, names |-> Names(mask)]
    /\ UNCHANGED <<mask, pending, applied, ruleVars, concVars, httpVars>>

GrantNext == Aggregate \/ CallHas \/ CallNames

SpecGrant == GrantInit /\ [][GrantNext]_vars

\* Bit i of m is set.
BitSet(m, i) == (m \div (2 ^ i)) % 2 = 1
Bits == 0..(Len(grantNames) - 1)
SingleBits == {2 ^ i : i \in Bits}
\* The capabilities some role already OR-ed in has contributed.
Contributed == {i \in Bits : \E k \in 1..Len(applied) : BitSet(applied[k], i)}
IsStrictlyIncreasing(s) == \A i \in 1..(Len(s) - 1) : s[i] < s[i + 1]

\* C6: Has(g) is true iff the mask and g have a set bit in common. Has(All)
\* is true of the mask All and of a mask of one bit; the zero mask has nothing.
C6_HasIsOverlap ==
    gret.op = "Has" =>
        /\ gret.out = (\E i \in Bits : BitSet(mask, i) /\ BitSet(gret.arg, i))
        /\ ((gret.arg = All /\ (mask = All \/ mask \in SingleBits)) => gret.out = TRUE)
        /\ (mask = 0 => gret.out = FALSE)

\* C6's case: a mask of the single bit WriteUsers asked for All.
C6_Witness ==
    /\ gret.op = "Has"
    /\ gret.arg = All
    /\ mask = WriteUsers
    /\ applied = <<0, WriteUsers>>
    /\ gret.out = TRUE

\* C7: Names() is the names of the set bits, each once, in bit order, in
\* whatever order the roles were OR-ed; a name is listed iff Has of its bit.
C7_NamesInBitOrder ==
    gret.op = "Names" =>
        LET idx == [k \in 1..Len(gret.names) |->
                       CHOOSE i \in Bits : grantNames[i + 1] = gret.names[k]]
        IN  /\ \A k \in 1..Len(gret.names) : gret.names[k] \in Items(grantNames)
            /\ IsStrictlyIncreasing(idx)
            /\ {idx[k] : k \in 1..Len(idx)} = Contributed
            /\ \A i \in Bits : (grantNames[i + 1] \in Items(gret.names)) = Has(mask, 2 ^ i)

\* C7's case: WriteUsers OR-ed in before ReadUsers.
C7_Witness ==
    /\ gret.op = "Names"
    /\ applied = <<WriteUsers, ReadUsers>>
    /\ gret.names = <<"ReadUsers", "WriteUsers">>

\* The OR of the masks of s, taken from the left.
RECURSIVE FoldOr(_)
FoldOr(s) == IF s = <<>> THEN 0 ELSE BitOr(Head(s), FoldOr(Tail(s)))

\* The roles of the principal, in increasing order of their masks.
RECURSIVE SortedMasks(_)
SortedMasks(S) ==
    IF S = {} THEN <<>>
    ELSE LET m == CHOOSE x \in S : \A y \in S : x <= y
         IN  <<m>> \o SortedMasks(S \ {m})

\* C8: a capability that the mask has is never lost when a further role is
\* OR-ed in; the mask holds no bit that no role contributed; and when every
\* role is in, the mask is the same whatever the order was.
C8_AggregationMonotonic ==
    /\ [][\A g \in SingleBits : Has(mask, g) => Has(mask', g)]_vars
    /\ [](\A i \in Bits : BitSet(mask, i) <=> i \in Contributed)
    /\ [](pending = <<>> => mask = FoldOr(SortedMasks(Items(applied))))

\* C8's case: two roles are in, the second added nothing the first had not.
C8_Witness ==
    /\ pending = <<>>
    /\ applied = <<BitOr(WriteUsers, ReadUsers), ReadDesktopSessions>>
    /\ mask = BitOr(ReadDesktopSessions, BitOr(ReadUsers, WriteUsers))

----------------------------------------------------------------------------
(* The desktop-session handlers *)

\* The grant DeleteDesktopSession asks for: the capability after ReadDesktopSessions.
WriteDesktopSessions == Iota(8)

\* User.HasGrant: some role of the user has the grant.
HasGrant(roles, grant) == \E k \in 1..Len(roles) : Has(roles[k], grant)

DesktopNames == {"dev/d1", "dev/d2"}
DesktopStatuses ==
    {[Running |-> FALSE, PodPhase |-> "Pending"], [Running |-> TRUE, PodPhase |-> "Running"]}

UserMasks ==
    {0, ReadDesktopSessions, WriteDesktopSessions,
     BitOr(ReadDesktopSessions, WriteDesktopSessions), All}

HttpInit ==
    /\ user \in SeqsUpTo(UserMasks, MaxRoles)
    /\ desktops \in UNION {[S -> DesktopStatuses] : S \in SUBSET DesktopNames}
    /\ http = NoHttp
    /\ a = EmptyRule /\ b = EmptyRule /\ ret = NoCall /\ authz = NoAuthz
    /\ ConcIdle /\ GrantIdle

Call(what, failed) == [call |-> what, err |-> failed]

Responded(handler, sess, nn, calls, resp, body) ==
    http' = [handler |-> handler, sess |-> sess, nn |-> nn, calls |-> calls,
             resp |-> resp, body |-> body]

\* The request carries the session of the logged-in user, or none (sess); the
\* client's Get fails when the Desktop is not there, and may fail besides
\* (getFails); net.LookupHost finds the desktop's host or not (resolves).
GetDesktopSessionStatus ==
    \E sess \in BOOLEAN, nn \in DesktopNames, getFails \in BOOLEAN, resolves \in BOOLEAN :
        /\ IF ~sess \/ ~HasGrant(user, ReadDesktopSessions)
             THEN Responded("GetDesktopSessionStatus", sess, nn, <<>>, "forbidden", NoBody)
           ELSE IF getFails \/ nn \notin DOMAIN desktops
             THEN Responded("GetDesktopSessionStatus", sess, nn,
                            <<Call("Get", TRUE)>>, "error", NoBody)
           ELSE Responded("GetDesktopSessionStatus", sess, nn, <<Call("Get", FALSE)>>, "ok",
                          [running |-> desktops[nn].Running,
                           podPhase |-> desktops[nn].PodPhase,
                           resolvable |-> resolves])
        /\ UNCHANGED <<user, desktops, ruleVars, concVars, grantVars>>

\* The handler, with the grant it asks for; the client's Delete may fail (deleteFails).
DeleteDesktopSessionAsking(grant) ==
    \E sess \in BOOLEAN, nn \in DesktopNames, getFails \in BOOLEAN, deleteFails \in BOOLEAN :
        /\ IF ~sess \/ ~HasGrant(user, grant)
             THEN /\ Responded("DeleteDesktopSession", sess, nn, <<>>, "forbidden", NoBody)
                  /\ UNCHANGED desktops
           ELSE IF getFails \/ nn \notin DOMAIN desktops
             THEN /\ Responded("DeleteDesktopSession", sess, nn,
                               <<Call("Get", TRUE)>>, "error", NoBody)
                  /\ UNCHANGED desktops
           ELSE IF deleteFails
             THEN /\ Responded("DeleteDesktopSession", sess, nn,
                               <<Call("Get", FALSE), Call("Delete", TRUE)>>, "error", NoBody)
                  /\ UNCHANGED desktops
           ELSE /\ Responded("DeleteDesktopSession", sess, nn,
                             <<Call("Get", FALSE), Call("Delete", FALSE)>>, "ok", NoBody)
                /\ desktops' = [n \in DOMAIN desktops \ {nn} |-> desktops[n]]
        /\ UNCHANGED <<user, ruleVars, concVars, grantVars>>

\* A plausible slip: the grant of the handler above is asked for.
DeleteDesktopSessionAskingRead == DeleteDesktopSessionAsking(ReadDesktopSessions)

DeleteDesktopSession == DeleteDesktopSessionAsking(WriteDesktopSessions)

HttpNext == GetDesktopSessionStatus \/ DeleteDesktopSession

SpecHttp == HttpInit /\ [][HttpNext]_vars

\* The grant the handler of the last request requires, as a bit.
RequiredBit == IF http.handler = "DeleteDesktopSession" THEN 8 ELSE 7
UserLacksRequired == \A k \in 1..Len(user) : ~BitSet(user[k], RequiredBit)
CallsMade == {http.calls[k].call : k \in 1..Len(http.calls)}

\* C9: a request without a session, or whose user lacks ReadDesktopSessions
\* (status) or WriteDesktopSessions (delete), is answered forbidden and makes
\* no Get and no Delete; a Delete is made only by the delete handler, after
\* the grant check passed and the Get of the desktop succeeded.
C9_ForbiddenMakesNoCalls ==
    http.handler # "none" =>
        /\ (~http.sess \/ UserLacksRequired) => (http.resp = "forbidden" /\ http.calls = <<>>)
        /\ "Delete" \in CallsMade =>
              /\ http.handler = "DeleteDesktopSession"
              /\ http.sess /\ ~UserLacksRequired
              /\ Len(http.calls) = 2
              /\ http.calls[1] = Call("Get", FALSE)
              /\ http.calls[2].call = "Delete"
        /\ http.resp = "forbidden" => (~http.sess \/ UserLacksRequired)

\* C9's case: a user who may read desktop sessions but not write them asks
\* for a delete of a desktop that is there.
C9_Witness ==
    /\ http.handler = "DeleteDesktopSession"
    /\ http.sess
    /\ user = <<ReadDesktopSessions>>
    /\ http.nn \in DOMAIN desktops
    /\ http.resp = "forbidden"
    /\ http.calls = <<>>

----------------------------------------------------------------------------
(* The concurrent specification: two goroutines call DeepEqual and the     *)
(* read predicates on the same two Rules. DeepEqual is taken statement     *)
(* group by statement group; a sort.Strings is one step.                   *)

Procs == {1, 2}

\* Rules none of whose fields is in increasing order, and one that is empty.
UnsortedRule ==
    Rule(<<sRead, VerbAll>>, <<sUsers, ResourceAll>>, <<pPrefixA, pUnclosed>>,
         <<sDev, NamespaceAll>>)
ConcRules == {UnsortedRule, [UnsortedRule EXCEPT !.Namespaces = <<NamespaceAll, sDev>>], EmptyRule}

RuleNames == {"a", "b"}
RuleNamed(n) == IF n = "a" THEN a ELSE b

NoLoc == [recv |-> "", arg |-> "", this |-> EmptyRule, that |-> EmptyRule,
          thisResourceStrings |-> <<>>, thisVerbStrings |-> <<>>,
          thatResourceStrings |-> <<>>, thatVerbStrings |-> <<>>]

ConcInit ==
    /\ a \in ConcRules
    /\ b \in ConcRules
    /\ held = <<a, b>>
    /\ pc = [p \in Procs |-> "idle"]
    /\ loc = [p \in Procs |-> NoLoc]
    /\ ret = [p \in Procs |-> NoCall]
    /\ authz = NoAuthz
    /\ GrantIdle /\ HttpIdle

\* this := r.DeepCopy(); that := rule.DeepCopy()
DeepEqualCopy(p) ==
    /\ pc[p] = "idle"
    /\ \E r \in RuleNames, rule \in RuleNames :
          loc' = [loc EXCEPT ![p] = [NoLoc EXCEPT !.recv = r, !.arg = rule,
                                                  !.this = DeepCopy(RuleNamed(r)),
                                                  !.that = DeepCopy(RuleNamed(rule))]]
    /\ pc' = [pc EXCEPT ![p] = "copied"]
    /\ UNCHANGED <<a, b, held, ret, authz, grantVars, httpVars>>

\* The four conversions to string slices.
DeepEqualConvert(p) ==
    /\ pc[p] = "copied"
    /\ loc' = [loc EXCEPT ![p].thisResourceStrings = resourcesToStrings(loc[p].this.Resources),
                          ![p].thisVerbStrings = verbsToStrings(loc[p].this.Verbs),
                          ![p].thatResourceStrings = resourcesToStrings(loc[p].that.Resources),
                          ![p].thatVerbStrings = verbsToStrings(loc[p].that.Verbs)]
    /\ pc' = [pc EXCEPT ![p] = "converted"]
    /\ UNCHANGED <<a, b, held, ret, authz, grantVars, httpVars>>

\* The four sorts of the string slices.
DeepEqualSortStrings(p) ==
    /\ pc[p] = "converted"
    /\ loc' = [loc EXCEPT ![p].thisResourceStrings = SortStrings(@),
                          ![p].thisVerbStrings = SortStrings(@),
                          ![p].thatResourceStrings = SortStrings(@),
                          ![p].thatVerbStrings = SortStrings(@)]
    /\ pc' = [pc EXCEPT ![p] = "sortedStrings"]
    /\ UNCHANGED <<a, b, held, ret, authz, grantVars, httpVars>>

\* A plausible slip: the patterns and namespaces of r and rule themselves are
\* sorted, not those of the copies.
DeepEqualSortInPlace(p) ==
    /\ pc[p] = "sortedStrings"
    /\ LET sorted(r) == [r EXCEPT !.ResourcePatterns = SortStrings(@),
                                  !.Namespaces = SortStrings(@)]
       IN  /\ a' = IF "a" \in {loc[p].recv, loc[p].arg} THEN sorted(a) ELSE a
           /\ b' = IF "b" \in {loc[p].recv, loc[p].arg} THEN sorted(b) ELSE b
    /\ pc' = [pc EXCEPT ![p] = "sortedCopies"]
    /\ UNCHANGED <<loc, held, ret, authz, grantVars, httpVars>>

\* The four sorts of the copies' patterns and namespaces.
DeepEqualSortCopies(p) ==
    /\ pc[p] = "sortedStrings"
    /\ loc' = [loc EXCEPT ![p].this.ResourcePatterns = SortStrings(@),
                          ![p].this.Namespaces = SortStrings(@),
                          ![p].that.ResourcePatterns = SortStrings(@),
                          ![p].that.Namespaces = SortStrings(@)]
    /\ pc' = [pc EXCEPT ![p] = "sortedCopies"]
    /\ UNCHANGED <<a, b, held, ret, authz, grantVars, httpVars>>

\* The return statement.
DeepEqualReturn(p) ==
    /\ pc[p] = "sortedCopies"
    /\ ret' = [ret EXCEPT ![p] =
                 [op |-> "DeepEqual", arg |-> <<>>,
                  out |-> /\ strSliceEqual(loc[p].thisResourceStrings, loc[p].thatResourceStrings)
                          /\ strSliceEqual(loc[p].thisVerbStrings, loc[p].thatVerbStrings)
                          /\ strSliceEqual(loc[p].this.ResourcePatterns,
                                           loc[p].that.ResourcePatterns)
                          /\ strSliceEqual(loc[p].this.Namespaces, loc[p].that.Namespaces)]]
    /\ pc' = [pc EXCEPT ![p] = "idle"]
    /\ loc' = [loc EXCEPT ![p] = NoLoc]
    /\ UNCHANGED <<a, b, held, authz, grantVars, httpVars>>

\* What a read predicate answers on rule r.
ReadOut(op, r) ==
    CASE op = "IsEmpty" -> IsEmpty(r)
      [] op = "HasVerb" -> HasVerb(r, sRead)
      [] op = "HasResourceType" -> HasResourceType(r, sUsers)
      [] op = "HasNamespace" -> HasNamespace(r, sDev)
      [] op = "MatchesResourceName" -> MatchesResourceName(r, nAB)

ReadOps == {"IsEmpty", "HasVerb", "HasResourceType", "HasNamespace", "MatchesResourceName"}

\* A goroutine calls one of the read predicates on rule a.
Read(p) ==
    /\ pc[p] = "idle"
    /\ \E op \in ReadOps : ret' = [ret EXCEPT ![p] = [op |-> op, arg |-> <<>>, out |-> ReadOut(op, a)]]
    /\ UNCHANGED <<a, b, held, pc, loc, authz, grantVars, httpVars>>

ConcNext ==
    \E p \in Procs :
        \/ DeepEqualCopy(p)
        \/ DeepEqualConvert(p)
        \/ DeepEqualSortStrings(p)
        \/ DeepEqualSortCopies(p)
        \/ DeepEqualReturn(p)
        \/ Read(p)

SpecConc == ConcInit /\ [][ConcNext]_vars

\* C5: whatever calls of DeepEqual and of the read predicates the goroutines
\* have made or are in the middle of, the two Rules have in every field the
\* elements they were handed over with, in the same order; so a read answers
\* as it does on the Rule as handed over.
C5_DeepEqualLeavesRulesAlone ==
    /\ a = held[1]
    /\ b = held[2]
    /\ \A p \in Procs : ret[p].op \in ReadOps => ret[p].out = ReadOut(ret[p].op, held[1])

\* C5's case: one goroutine has sorted its copies of an unsorted Rule while
\* the other is in the middle of its own DeepEqual on that Rule.
C5_Witness ==
    /\ a = UnsortedRule
    /\ pc[1] = "sortedCopies"
    /\ loc[1].recv = "a"
    /\ loc[1].this.ResourcePatterns = <<pUnclosed, pPrefixA>>
    /\ pc[2] = "copied"
    /\ loc[2].arg = "a"

====
